---------------------------- MODULE Spec2Model ----------------------------
(***************************************************************************)
(* A model of src/lib/progress-storage.js: the session store built on      *)
(* localStorage (saveSession, loadSession, hasSession, clearSession,       *)
(* getSessionSummary) and the two position/percentage conversions.         *)
(*                                                                         *)
(* JavaScript values are tagged records of one shape, JSON texts are       *)
(* sequences of lexical tokens, and the arithmetic of the conversions is   *)
(* IEEE-754 double arithmetic carried out on 53-bit significands.          *)
(***************************************************************************)
EXTENDS Integers, Sequences, FiniteSets, TLC

(***************************************************************************)
(* Bounds of the model.                                                    *)
(***************************************************************************)
\* The clock (Date.now()) runs over 0..MaxClock.
MaxClock == 2
\* The callers (tabs, instances) sharing the storage are 1..NumCallers.
NumCallers == 2
\* percentage ranges over -PctMargin .. 100 + PctMargin.
PctMargin == 3
\* totalWords ranges over -1 .. MaxTotalWords (and "absent").
MaxTotalWords == 100
\* wordIndex ranges over -MaxWordIndex .. MaxWordIndex.
MaxWordIndex == 45
\* totalWords of wordIndexToPercentage ranges over -1 .. MaxTotalWordsPct
\* with every wordIndex, and over 1 .. MaxLargeTotal with the wordIndex within
\* NearMargin of 0 and of totalWords.
MaxTotalWordsPct == 41
MaxLargeTotal == 202
NearMargin == 2

(***************************************************************************)
(* JavaScript values.                                                      *)
(***************************************************************************)
JSVal(tag, s, n, o) == [tag |-> tag, s |-> s, n |-> n, o |-> o]

Undefined == JSVal("undefined", "", 0, <<>>)
Null      == JSVal("null", "", 0, <<>>)
True      == JSVal("true", "", 0, <<>>)
False     == JSVal("false", "", 0, <<>>)
NaN       == JSVal("NaN", "", 0, <<>>)
Num(n)    == JSVal("number", "", n, <<>>)
Str(s)    == JSVal("string", s, 0, <<>>)
\* An object: its own properties, in insertion order, as <<key, value>> pairs.
Obj(props) == JSVal("object", "", 0, props)
\* An object that refers to itself (o.self = o).
Circular  == JSVal("circular", "", 0, <<>>)

Bool(b) == IF b THEN True ELSE False

\* ToBoolean, as used by ! and !!.
Truthy(v) ==
  CASE v.tag \in {"undefined", "null", "false", "NaN"} -> FALSE
    [] v.tag = "number" -> v.n # 0
    [] v.tag = "string" -> v.s # ""
    [] OTHER -> TRUE

IsNullish(v) == v.tag \in {"undefined", "null"}

\* The value of v[key] for a value v that is not null or undefined: the last
\* own property of that name, undefined when there is none.
GetProp(v, key) ==
  LET idx == {i \in 1..Len(v.o) : v.o[i][1] = key}
  IN  IF v.tag = "object" /\ idx # {}
        THEN v.o[CHOOSE i \in idx : \A j \in idx : j <= i][2]
        ELSE Undefined

HasProp(v, key) == v.tag = "object" /\ \E i \in 1..Len(v.o) : v.o[i][1] = key

(***************************************************************************)
(* JSON texts, as sequences of tokens.  The empty sequence is the empty    *)
(* string.                                                                 *)
(***************************************************************************)
Tok(k, s, n) == [k |-> k, s |-> s, n |-> n]
TPunct(c) == Tok("punct", c, 0)
TLit(w)   == Tok("lit", w, 0)
TNum(n)   == Tok("num", "", n)
TStr(s)   == Tok("str", s, 0)
\* A character sequence that is no JSON token.
TJunk     == Tok("junk", "not json", 0)

\* JSON.stringify throws a TypeError on a cyclic structure.
RECURSIVE HasCycle(_)
HasCycle(v) ==
  \/ v.tag = "circular"
  \/ v.tag = "object" /\ \E i \in 1..Len(v.o) : HasCycle(v.o[i][2])

\* JSON.stringify(v) for a value without cycles.  A property whose value is
\* undefined is left out; NaN is written as null.
RECURSIVE JSONstringify(_)
RECURSIVE StringifyProps(_, _)
StringifyProps(props, first) ==
  IF props = <<>> THEN <<>>
  ELSE LET p == Head(props)
       IN  IF p[2].tag = "undefined"
             THEN StringifyProps(Tail(props), first)
             ELSE (IF first THEN <<>> ELSE <<TPunct(",")>>)
                  \o <<TStr(p[1]), TPunct(":")>> \o JSONstringify(p[2])
                  \o StringifyProps(Tail(props), FALSE)

JSONstringify(v) ==
  CASE v.tag = "string" -> <<TStr(v.s)>>
    [] v.tag = "number" -> <<TNum(v.n)>>
    [] v.tag \in {"NaN", "null"} -> <<TLit("null")>>
    [] v.tag \in {"true", "false"} -> <<TLit(v.tag)>>
    [] v.tag = "object" ->
         <<TPunct("{")>> \o StringifyProps(v.o, TRUE) \o <<TPunct("}")>>
    [] OTHER -> <<>>

\* JSON.parse: a recursive-descent parser.  ParseValue reads one value from
\* the front of toks and returns [ok, val, rest]; ok is FALSE on a syntax
\* error.
ParseFail == [ok |-> FALSE, val |-> Undefined, rest |-> <<>>]
ParseOk(v, rest) == [ok |-> TRUE, val |-> v, rest |-> rest]

RECURSIVE ParseValue(_)
RECURSIVE ParseMembers(_, _)
\* toks starts at a member ("key" : value); acc holds the members read.
ParseMembers(toks, acc) ==
  IF Len(toks) < 3 \/ toks[1].k # "str" \/ toks[2] # TPunct(":")
    THEN ParseFail
    ELSE LET r == ParseValue(SubSeq(toks, 3, Len(toks)))
         IN  IF ~r.ok \/ r.rest = <<>> THEN ParseFail
             ELSE LET acc2 == Append(acc, <<toks[1].s, r.val>>)
                  IN  IF Head(r.rest) = TPunct("}")
                        THEN ParseOk(Obj(acc2), Tail(r.rest))
                      ELSE IF Head(r.rest) = TPunct(",")
                        THEN ParseMembers(Tail(r.rest), acc2)
                      ELSE ParseFail

ParseValue(toks) ==
  IF toks = <<>> THEN ParseFail
  ELSE LET t == Head(toks)
       IN  CASE t.k = "str" -> ParseOk(Str(t.s), Tail(toks))
             [] t.k = "num" -> ParseOk(Num(t.n), Tail(toks))
             [] t.k = "lit" ->
                  ParseOk(CASE t.s = "null" -> Null
                            [] t.s = "true" -> True
                            [] OTHER -> False, Tail(toks))
             [] t = TPunct("{") ->
                  IF Len(toks) >= 2 /\ toks[2] = TPunct("}")
                    THEN ParseOk(Obj(<<>>), SubSeq(toks, 3, Len(toks)))
                    ELSE ParseMembers(Tail(toks), <<>>)
             [] OTHER -> ParseFail

\* JSON.parse(text) throws a SyntaxError unless the whole text is one value.
JSONparses(text) == LET r == ParseValue(text) IN r.ok /\ r.rest = <<>>
JSONparse(text) == ParseValue(text).val

(***************************************************************************)
(* localStorage: a map from keys to items; an item is a string (a token    *)
(* sequence) or absent (getItem returns null).                             *)
(***************************************************************************)
STORAGE_KEY == "rsvp-reading-session"
\* Some other key of the same origin, which this module never names.
OTHER_KEY == "other-key"
Keys == {STORAGE_KEY, OTHER_KEY}

NoItem == [present |-> FALSE, v |-> <<>>]
Item(text) == [present |-> TRUE, v |-> text]
EmptyStorage == [k \in Keys |-> NoItem]

getItem(ls, key) == ls[key]
setItem(ls, key, text) == [ls EXCEPT ![key] = Item(text)]
removeItem(ls, key) == [ls EXCEPT ![key] = NoItem]

\* !data for the result of getItem: null and the empty string are falsy.
Falsy(item) == ~item.present \/ item.v = <<>>

(***************************************************************************)
(* The outcome of a call: whether an exception left it, the value it       *)
(* returned, the storage after it and the number of console.error calls.   *)
(***************************************************************************)
Returned(v, ls) == [threw |-> FALSE, ret |-> v, ls |-> ls, logs |-> 0]
Thrown(ls) == [threw |-> TRUE, ret |-> Undefined, ls |-> ls, logs |-> 0]
\* catch (error) { console.error(...); return v; }
CatchLog(r, v) ==
  IF r.threw THEN [threw |-> FALSE, ret |-> v, ls |-> r.ls, logs |-> r.logs + 1]
  ELSE r
\* catch { return v; }
CatchSilent(r, v) ==
  IF r.threw THEN [threw |-> FALSE, ret |-> v, ls |-> r.ls, logs |-> r.logs]
  ELSE r

\* SessionData, had it kept a savedAt that the caller supplies.
SessionDataTrustingCaller(session, t) ==
  Obj(<< <<"text", GetProp(session, "text")>>,
         <<"currentWordIndex", GetProp(session, "currentWordIndex")>>,
         <<"totalWords", GetProp(session, "totalWords")>>,
         <<"settings", GetProp(session, "settings")>>,
         <<"savedAt", IF HasProp(session, "savedAt")
                        THEN GetProp(session, "savedAt") ELSE Num(t)>> >>)

\* The object literal of saveSession; t is the reading of Date.now().
SessionData(session, t) ==
  Obj(<< <<"text", GetProp(session, "text")>>,
         <<"currentWordIndex", GetProp(session, "currentWordIndex")>>,
         <<"totalWords", GetProp(session, "totalWords")>>,
         <<"settings", GetProp(session, "settings")>>,
         <<"savedAt", Num(t)>> >>)

\* saveSessionTry, had it removed the old record before writing the new one.
saveSessionClearFirst(session, ls, t, throws) ==
  IF IsNullish(session) THEN Thrown(ls)
  ELSE LET data == SessionData(session, t)
       IN  IF HasCycle(data) THEN Thrown(ls)
           ELSE IF throws THEN Thrown(removeItem(ls, STORAGE_KEY))
           ELSE Returned(True, setItem(ls, STORAGE_KEY, JSONstringify(data)))

\* saveSessionTry, had it kept a record that is already there.
saveSessionKeepFirst(session, ls, t, throws) ==
  IF IsNullish(session) THEN Thrown(ls)
  ELSE LET data == SessionData(session, t)
       IN  IF HasCycle(data) THEN Thrown(ls)
           ELSE IF throws THEN Thrown(ls)
           ELSE IF getItem(ls, STORAGE_KEY).present THEN Returned(True, ls)
           ELSE Returned(True, setItem(ls, STORAGE_KEY, JSONstringify(data)))

\* The try block of saveSession.  throws: the storage access throws
\* (storage unavailable, quota exceeded).
saveSessionTry(session, ls, t, throws) ==
  IF IsNullish(session) THEN Thrown(ls)
  ELSE LET data == SessionData(session, t)
       IN  IF HasCycle(data) THEN Thrown(ls)
           ELSE IF throws THEN Thrown(ls)
           ELSE Returned(True, setItem(ls, STORAGE_KEY, JSONstringify(data)))

saveSession(session, ls, t, throws) ==
  CatchLog(saveSessionTry(session, ls, t, throws), False)

\* loadSessionTry, had it tested data === null instead of !data.
loadSessionNullCheck(ls, throws) ==
  IF throws THEN Thrown(ls)
  ELSE LET data == getItem(ls, STORAGE_KEY)
       IN  IF ~data.present THEN Returned(Null, ls)
           ELSE IF ~JSONparses(data.v) THEN Thrown(ls)
           ELSE Returned(JSONparse(data.v), ls)

loadSessionTry(ls, throws) ==
  IF throws THEN Thrown(ls)
  ELSE LET data == getItem(ls, STORAGE_KEY)
       IN  IF Falsy(data) THEN Returned(Null, ls)
           ELSE IF ~JSONparses(data.v) THEN Thrown(ls)
           ELSE Returned(JSONparse(data.v), ls)

loadSession(ls, throws) == CatchLog(loadSessionTry(ls, throws), Null)

\* hasSessionTry, had it compared with === null.
hasSessionInverted(ls, throws) ==
  IF throws THEN Thrown(ls)
  ELSE Returned(Bool(~getItem(ls, STORAGE_KEY).present), ls)

hasSessionTry(ls, throws) ==
  IF throws THEN Thrown(ls)
  ELSE Returned(Bool(getItem(ls, STORAGE_KEY).present), ls)

\* hasSession, had its catch logged like the others.
hasSessionLogging(ls, throws) == CatchLog(hasSessionTry(ls, throws), False)

hasSession(ls, throws) == CatchSilent(hasSessionTry(ls, throws), False)

\* clearSessionTry, had it removed another key.
clearSessionWrongKey(ls, throws) ==
  IF throws THEN Thrown(ls)
  ELSE Returned(True, removeItem(ls, OTHER_KEY))

clearSessionTry(ls, throws) ==
  IF throws THEN Thrown(ls)
  ELSE Returned(True, removeItem(ls, STORAGE_KEY))

clearSession(ls, throws) == CatchLog(clearSessionTry(ls, throws), False)

\* getSessionSummaryTry, had hasText been parsed.text !== undefined.
getSessionSummaryDefinedText(ls, throws) ==
  IF throws THEN Thrown(ls)
  ELSE LET data == getItem(ls, STORAGE_KEY)
       IN  IF Falsy(data) THEN Returned(Null, ls)
           ELSE IF ~JSONparses(data.v) THEN Thrown(ls)
           ELSE LET parsed == JSONparse(data.v)
                IN  IF IsNullish(parsed) THEN Thrown(ls)
                    ELSE Returned(
                      Obj(<< <<"currentWordIndex", GetProp(parsed, "currentWordIndex")>>,
                             <<"totalWords", GetProp(parsed, "totalWords")>>,
                             <<"savedAt", GetProp(parsed, "savedAt")>>,
                             <<"hasText", Bool(GetProp(parsed, "text") # Undefined)>> >>),
                      ls)

getSessionSummaryTry(ls, throws) ==
  IF throws THEN Thrown(ls)
  ELSE LET data == getItem(ls, STORAGE_KEY)
       IN  IF Falsy(data) THEN Returned(Null, ls)
           ELSE IF ~JSONparses(data.v) THEN Thrown(ls)
           ELSE LET parsed == JSONparse(data.v)
                IN  \* parsed.currentWordIndex of null is a TypeError
                    IF IsNullish(parsed) THEN Thrown(ls)
                    ELSE Returned(
                      Obj(<< <<"currentWordIndex", GetProp(parsed, "currentWordIndex")>>,
                             <<"totalWords", GetProp(parsed, "totalWords")>>,
                             <<"savedAt", GetProp(parsed, "savedAt")>>,
                             <<"hasText", Bool(Truthy(GetProp(parsed, "text")))>> >>),
                      ls)

getSessionSummary(ls, throws) == CatchSilent(getSessionSummaryTry(ls, throws), Null)

(***************************************************************************)
(* Numbers.  A Number is an IEEE-754 double: sign * M * 2^e with M a       *)
(* significand of Precision bits, kept as a sequence of bits, most         *)
(* significant first, so that no intermediate value leaves the integers    *)
(* TLC computes with.  Every operation rounds its exact result to the      *)
(* nearest double, ties to even.                                           *)
(***************************************************************************)
Precision == 53

Min(a, b) == IF a <= b THEN a ELSE b
Max(a, b) == IF a >= b THEN a ELSE b
Abs(a) == IF a < 0 THEN -a ELSE a

\* The arithmetic on bit sequences works on chunks of ChunkBits bits, each
\* small enough that its products stay within TLC's integers.
ChunkBits == 13

RECURSIVE NatBits(_)
NatBits(n) == IF n = 0 THEN <<>> ELSE Append(NatBits(n \div 2), n % 2)

RECURSIVE BitsNat(_)
BitsNat(bits) ==
  IF bits = <<>> THEN 0
  ELSE 2 * BitsNat(SubSeq(bits, 1, Len(bits) - 1)) + bits[Len(bits)]

\* The ChunkBits bits of v < 2^ChunkBits, leading zeros included.
ChunkOf(v) == [i \in 1..ChunkBits |-> (v \div 2^(ChunkBits - i)) % 2]

\* bits without its leading zeros
Strip(bits) ==
  LET ones == {i \in 1..Len(bits) : bits[i] = 1}
  IN  IF ones = {} THEN <<>>
      ELSE SubSeq(bits, CHOOSE i \in ones : \A j \in ones : i <= j, Len(bits))

\* bits + 1
IncBits(bits) ==
  LET zeros == {i \in 1..Len(bits) : bits[i] = 0}
  IN  IF zeros = {} THEN <<1>> \o [i \in 1..Len(bits) |-> 0]
      ELSE LET j == CHOOSE i \in zeros : \A k \in zeros : k <= i
           IN  [i \in 1..Len(bits) |->
                  IF i < j THEN bits[i] ELSE IF i = j THEN 1 ELSE 0]

\* bits * n + carry, for natural numbers n and carry, a chunk at a time from
\* the least significant end.
RECURSIVE MulBits(_, _, _)
MulBits(bits, n, carry) ==
  IF Len(bits) <= ChunkBits THEN NatBits(BitsNat(bits) * n + carry)
  ELSE LET cut == Len(bits) - ChunkBits
           p   == BitsNat(SubSeq(bits, cut + 1, Len(bits))) * n + carry
       IN  MulBits(SubSeq(bits, 1, cut), n, p \div 2^ChunkBits)
           \o ChunkOf(p % 2^ChunkBits)

DZero == [zero |-> TRUE, neg |-> FALSE, m |-> <<>>, e |-> 0]

\* The double nearest to (bits + f) * 2^e, where bits starts with a 1 and
\* has at least Precision bits, and 0 <= f < 1 is nonzero iff sticky.
RoundToDouble(neg, bits, sticky, e) ==
  LET L     == Len(bits)
      keep  == SubSeq(bits, 1, Precision)
      guard == IF L > Precision THEN bits[Precision + 1] ELSE 0
      rest  == sticky \/ \E i \in (Precision + 2)..L : bits[i] = 1
      up    == guard = 1 /\ (rest \/ keep[Precision] = 1)
      inc   == IncBits(keep)
  IN  IF ~up THEN [zero |-> FALSE, neg |-> neg, m |-> keep, e |-> e + L - Precision]
      ELSE IF Len(inc) > Precision
        THEN [zero |-> FALSE, neg |-> neg, m |-> SubSeq(inc, 1, Precision),
              e |-> e + L - Precision + 1]
      ELSE [zero |-> FALSE, neg |-> neg, m |-> inc, e |-> e + L - Precision]

\* The bits of a / b after the binary point, a chunk at a time by long
\* division: r < b is the remainder so far, n the number of chunks wanted.
\* Returns the bits and the last remainder.
RECURSIVE DivBits(_, _, _)
DivBits(r, b, n) ==
  IF n = 0 THEN [bits |-> <<>>, r |-> r]
  ELSE LET d    == r * 2^ChunkBits
           more == DivBits(d % b, b, n - 1)
       IN  [bits |-> ChunkOf(d \div b) \o more.bits, r |-> more.r]

\* Enough chunks after the binary point to hold Precision + 1 significant
\* bits of a quotient of at least 2^(-ChunkBits).
DivChunks == (Precision + 1) \div ChunkBits + 2

\* a / b for integers a and b, 0 < b < 2^ChunkBits
DDiv(a, b) ==
  IF a = 0 THEN DZero
  ELSE LET q == DivBits(Abs(a) % b, b, DivChunks)
       IN  RoundToDouble(a < 0, Strip(NatBits(Abs(a) \div b) \o q.bits),
                         q.r # 0, -(DivChunks * ChunkBits))

\* x * n for a double x and an integer n > 0
DMul(x, n) ==
  IF x.zero THEN DZero
  ELSE RoundToDouble(x.neg, MulBits(x.m, n, 0), FALSE, x.e)

\* |x| = IntPart + fraction; the bit at place i after the binary point.
IntBits(x) == Precision + x.e
IntPart(x) ==
  IF x.zero \/ IntBits(x) <= 0 THEN 0
  ELSE BitsNat(SubSeq(x.m, 1, Min(Precision, IntBits(x))))
FracBit(x, i) ==
  LET j == IntBits(x) + i
  IN  IF x.zero \/ j < 1 \/ j > Precision THEN 0 ELSE x.m[j]
FracNonZero(x) ==
  ~x.zero /\ \E j \in Max(1, IntBits(x) + 1)..Precision : x.m[j] = 1
FracAboveHalf(x) ==
  /\ FracBit(x, 1) = 1
  /\ \E j \in Max(1, IntBits(x) + 2)..Precision : x.m[j] = 1

\* Math.floor and Math.round (ties towards +Infinity), as integers; -0 is 0.
MathFloor(x) ==
  IF x.neg THEN -(IntPart(x) + (IF FracNonZero(x) THEN 1 ELSE 0))
  ELSE IntPart(x)
MathRound(x) ==
  IF x.neg THEN -(IntPart(x) + (IF FracAboveHalf(x) THEN 1 ELSE 0))
  ELSE IntPart(x) + FracBit(x, 1)

\* !totalWords || totalWords <= 0, for totalWords a number or undefined
NoWords(totalWords) == ~Truthy(totalWords) \/ totalWords.n <= 0

percentageToWordIndex(percentage, totalWords) ==
  IF NoWords(totalWords) THEN 0
  ELSE LET clamped == Max(0, Min(100, percentage))
       IN  MathFloor(DMul(DDiv(clamped, 100), totalWords.n))

\* wordIndexToPercentage, had it clamped its result like percentageToWordIndex.
wordIndexToPercentageClamped(wordIndex, totalWords) ==
  IF NoWords(totalWords) THEN 0
  ELSE Max(0, Min(100, MathRound(DMul(DDiv(wordIndex, totalWords.n), 100))))

wordIndexToPercentage(wordIndex, totalWords) ==
  IF NoWords(totalWords) THEN 0
  ELSE MathRound(DMul(DDiv(wordIndex, totalWords.n), 100))

(***************************************************************************)
(* The inputs.                                                             *)
(***************************************************************************)
Callers == 1..NumCallers

Session(text, cwi, tw, settings) ==
  Obj(<< <<"text", text>>, <<"currentWordIndex", cwi>>,
         <<"totalWords", tw>>, <<"settings", settings>> >>)

\* A session as the reader passes it, which also carries a savedAt of its own.
SessionReading ==
  Obj(<< <<"text", Str("one two")>>, <<"currentWordIndex", Num(1)>>,
         <<"totalWords", Num(2)>>,
         <<"settings", Obj(<< <<"wpm", Num(300)>>, <<"font", Str("serif")>> >>)>>,
         <<"savedAt", Num(99)>> >>)
\* Nothing to read yet.
SessionEmpty == Session(Str(""), Num(0), Num(0), Obj(<<>>))
\* Fields of other types than documented, some of which JSON does not keep:
\* text is a number, currentWordIndex is NaN, settings.wpm is undefined.
SessionUntyped ==
  Session(Num(7), NaN, Num(2), Obj(<< <<"wpm", Undefined>> >>))
\* settings refers to itself.
SessionCyclic == Session(Str("one two"), Num(0), Num(2), Circular)

Sessions ==
  {SessionReading, SessionEmpty, SessionUntyped, SessionCyclic, Undefined}

\* What other code of the origin may leave under the key.
ForeignTexts ==
  { <<>>,                                  \* the empty string
    <<TPunct("{"), TStr("text")>>,         \* a truncated record
    <<TJunk>>,                             \* not JSON at all
    <<TLit("null")>>,                      \* JSON, but no object
    <<TPunct("{"), TStr("text"), TPunct(":"), TLit("true"), TPunct("}")>> }

(***************************************************************************)
(* The state.                                                              *)
(***************************************************************************)
VARIABLES
  storage,   \* localStorage
  now,       \* the clock read by Date.now()
  op,        \* the last call made
  caller,    \* who made it
  arg,       \* the argument of that call, when it was a saveSession
  failed,    \* whether the storage access of that call threw
  out,       \* its outcome: [threw, ret, logs]
  changed,   \* whether that call changed the storage
  lastSaved, \* the latest saveSession that returned true, unless its record
             \* was removed or overwritten by other code since: its argument,
             \* the clock before the call and at Date.now(), and its caller
  cleared,   \* since the last saveSession that returned true:
             \* <<clearSession was called, a clearSession returned true>>
  foreign,   \* other code wrote the key since the last saveSession or
             \* clearSession that returned true
  conv       \* the conversion being computed

vars == <<storage, now, op, caller, arg, failed, out, changed, lastSaved,
          cleared, foreign, conv>>

ConvIdle == [fn |-> "none", x |-> 0, total |-> Undefined, done |-> FALSE, result |-> 0]

NoSave == [some |-> FALSE, session |-> Undefined, before |-> 0, at |-> 0, by |-> 1]

NoOutcome == [threw |-> FALSE, ret |-> Undefined, logs |-> 0]

InitStore ==
  /\ storage = EmptyStorage
  /\ now = 0
  /\ op = "none"
  /\ caller = 1
  /\ arg = Undefined
  /\ failed = FALSE
  /\ out = NoOutcome
  /\ changed = FALSE
  /\ lastSaved = NoSave
  /\ cleared = <<FALSE, FALSE>>
  /\ foreign = FALSE

Init == InitStore /\ conv = ConvIdle

\* What every call records.
Call(name, c, a, throws, r) ==
  /\ op' = name
  /\ caller' = c
  /\ arg' = a
  /\ failed' = throws
  /\ out' = [threw |-> r.threw, ret |-> r.ret, logs |-> r.logs]
  /\ storage' = r.ls
  /\ changed' = (r.ls # storage)

\* saveSession(s) by caller c.  now is the latest time a record was stamped
\* with; Date.now() reads d more.
SaveSession ==
  \E c \in Callers, s \in Sessions, d \in 0..1, throws \in BOOLEAN :
    /\ now + d <= MaxClock
    /\ LET r == saveSession(s, storage, now + d, throws)
       IN  /\ Call("saveSession", c, s, throws, r)
           /\ IF r.ret = True
                THEN /\ now' = now + d
                     /\ lastSaved' = [some |-> TRUE, session |-> s,
                                      before |-> now, at |-> now + d, by |-> c]
                     /\ cleared' = <<FALSE, FALSE>>
                     /\ foreign' = FALSE
                ELSE UNCHANGED <<now, lastSaved, cleared, foreign>>
    /\ UNCHANGED conv

LoadSession ==
  \E c \in Callers, throws \in BOOLEAN :
    /\ Call("loadSession", c, Undefined, throws, loadSession(storage, throws))
    /\ UNCHANGED <<now, lastSaved, cleared, foreign, conv>>

HasSession ==
  \E c \in Callers, throws \in BOOLEAN :
    /\ Call("hasSession", c, Undefined, throws, hasSession(storage, throws))
    /\ UNCHANGED <<now, lastSaved, cleared, foreign, conv>>

ClearSession ==
  \E c \in Callers, throws \in BOOLEAN :
    /\ LET r == clearSession(storage, throws)
       IN  /\ Call("clearSession", c, Undefined, throws, r)
           /\ cleared' = <<TRUE, cleared[2] \/ r.ret = True>>
           /\ foreign' = (foreign /\ r.ret # True)
           /\ lastSaved' = IF r.ret = True THEN NoSave ELSE lastSaved
    /\ UNCHANGED <<now, conv>>

GetSessionSummary ==
  \E c \in Callers, throws \in BOOLEAN :
    /\ Call("getSessionSummary", c, Undefined, throws,
            getSessionSummary(storage, throws))
    /\ UNCHANGED <<now, lastSaved, cleared, foreign, conv>>

\* Other code of the origin writes the key.
ForeignWrite ==
  \E text \in ForeignTexts :
    /\ storage' = setItem(storage, STORAGE_KEY, text)
    /\ op' = "foreignWrite"
    /\ arg' = Undefined
    /\ failed' = FALSE
    /\ out' = NoOutcome
    /\ changed' = (storage' # storage)
    /\ foreign' = TRUE
    /\ lastSaved' = NoSave
    /\ UNCHANGED <<now, caller, cleared, conv>>

Next ==
  \/ SaveSession
  \/ LoadSession
  \/ HasSession
  \/ ClearSession
  \/ GetSessionSummary
  \/ ForeignWrite

Spec == Init /\ [][Next]_vars

(***************************************************************************)
(* The conversions: the arguments are drawn at the start, the call         *)
(* computes the result.                                                    *)
(***************************************************************************)
Totals(max) == {Undefined} \cup {Num(n) : n \in -1..max}

PctInputs ==
  [fn : {"percentageToWordIndex"}, x : (-PctMargin)..(100 + PctMargin),
   total : Totals(MaxTotalWords), done : {FALSE}, result : {0}]

\* Every wordIndex of the range with a small totalWords, and the wordIndex
\* around 0 and around totalWords with a larger one.
IdxInputs ==
  [fn : {"wordIndexToPercentage"}, x : (-MaxWordIndex)..MaxWordIndex,
   total : Totals(MaxTotalWordsPct), done : {FALSE}, result : {0}]
  \cup
  { [fn |-> "wordIndexToPercentage", x |-> w, total |-> Num(n),
     done |-> FALSE, result |-> 0] :
      w \in (-NearMargin)..NearMargin, n \in 1..MaxLargeTotal }
  \cup
  { [fn |-> "wordIndexToPercentage", x |-> n + w, total |-> Num(n),
     done |-> FALSE, result |-> 0] :
      w \in (-NearMargin)..NearMargin, n \in 1..MaxLargeTotal }

InitConv == InitStore /\ conv \in PctInputs \cup IdxInputs

storeVars == <<storage, now, op, caller, arg, failed, out, changed,
               lastSaved, cleared, foreign>>

PercentageToWordIndex ==
  /\ conv.fn = "percentageToWordIndex" /\ ~conv.done
  /\ conv' = [conv EXCEPT !.done = TRUE,
                          !.result = percentageToWordIndex(conv.x, conv.total)]
  /\ UNCHANGED storeVars

WordIndexToPercentage ==
  /\ conv.fn = "wordIndexToPercentage" /\ ~conv.done
  /\ conv' = [conv EXCEPT !.done = TRUE,
                          !.result = wordIndexToPercentage(conv.x, conv.total)]
  /\ UNCHANGED storeVars

NextConv == PercentageToWordIndex \/ WordIndexToPercentage

SpecConv == InitConv /\ [][NextConv]_vars


(***************************************************************************)
(* What the properties speak of.                                           *)
(***************************************************************************)
Slot == storage[STORAGE_KEY]

RecordFields == {"text", "currentWordIndex", "totalWords", "settings"}

\* A value that JSON carries unchanged.
RECURSIVE Plain(_)
Plain(v) ==
  \/ v.tag \in {"string", "number", "null", "true", "false"}
  \/ v.tag = "object" /\ \A i \in 1..Len(v.o) : Plain(v.o[i][2])

\* A session of the documented types.
ValidSession(s) ==
  /\ s.tag = "object"
  /\ GetProp(s, "text").tag = "string"
  /\ GetProp(s, "currentWordIndex").tag = "number"
  /\ GetProp(s, "totalWords").tag = "number"
  /\ GetProp(s, "settings").tag = "object"
  /\ Plain(GetProp(s, "settings"))

\* What a value reads as after a trip through JSON: NaN as null, and an
\* object without the properties that were undefined.
RECURSIVE JSONImage(_)
JSONImage(v) ==
  CASE v.tag = "NaN" -> Null
    [] v.tag = "object" ->
         LET kept == SelectSeq(v.o, LAMBDA q : q[2].tag # "undefined")
         IN  Obj([i \in 1..Len(kept) |-> <<kept[i][1], JSONImage(kept[i][2])>>])
    [] OTHER -> v

\* r is the record that the save described by s left.
IsRecordOf(r, s) ==
  /\ r.tag = "object"
  /\ \A f \in RecordFields : GetProp(r, f) = JSONImage(GetProp(s.session, f))
  /\ GetProp(r, "savedAt") = Num(s.at)

\* The record under the key, when the text there is a JSON object.
SlotHoldsRecord ==
  Slot.present /\ JSONparses(Slot.v) /\ JSONparse(Slot.v).tag = "object"
Stored == JSONparse(Slot.v)

\* The text under the key is not empty and is not JSON.
SlotCorrupt == Slot.present /\ Slot.v # <<>> /\ ~JSONparses(Slot.v)

\* No save has returned true and nothing else has touched the slot.
NeverSaved == ~lastSaved.some /\ ~cleared[1] /\ ~foreign

(***************************************************************************)
(* C1.  Round trip: a loadSession whose storage read works, made while the *)
(* record of saveSession(S) for a valid S is the latest one written,       *)
(* returns a record equal to S in text, currentWordIndex, totalWords and   *)
(* settings, with a savedAt that is the clock reading of the save, not     *)
(* before the time just before the call, whatever savedAt S carries.       *)
(***************************************************************************)
RoundTrip ==
  (op = "loadSession" /\ ~failed /\ lastSaved.some
     /\ ValidSession(lastSaved.session)) =>
    /\ ~out.threw
    /\ out.ret.tag = "object"
    /\ \A f \in RecordFields :
         GetProp(out.ret, f) = GetProp(lastSaved.session, f)
    /\ GetProp(out.ret, "savedAt") = Num(lastSaved.at)
    /\ GetProp(out.ret, "savedAt").n >= lastSaved.before

\* A load returned the record of a session that carried its own savedAt,
\* stamped after the call began.
RoundTripWitness ==
  /\ op = "loadSession" /\ ~failed /\ lastSaved.some
  /\ lastSaved.session = SessionReading
  /\ HasProp(lastSaved.session, "savedAt")
  /\ lastSaved.at > lastSaved.before
  /\ GetProp(out.ret, "text") = Str("one two")
  /\ GetProp(out.ret, "savedAt") = Num(lastSaved.at)

(***************************************************************************)
(* C2, as stated.  hasSession() returns false before any save and right    *)
(* after every clearSession(), and true right after every saveSession()    *)
(* that returned true.  Read in the claim's favour: no other code writes   *)
(* the key, and the storage read of hasSession() itself does not throw.    *)
(***************************************************************************)
HasSessionAsStated ==
  [][(op' = "hasSession" /\ ~foreign' /\ ~failed') =>
       /\ (op = "clearSession" \/ NeverSaved) => out'.ret = False
       /\ (op = "saveSession" /\ out.ret = True) => out'.ret = True]_vars

(***************************************************************************)
(* C2, amended.  hasSession() returns false before any save and after a    *)
(* clearSession() that returned true, and, when its own storage read does  *)
(* not throw, true after a saveSession() that returned true, until a       *)
(* clearSession() returns true.                                            *)
(***************************************************************************)
HasSessionTracksSlot ==
  (op = "hasSession" /\ ~foreign) =>
    /\ ~out.threw
    /\ ~lastSaved.some => out.ret = False
    /\ (lastSaved.some /\ ~failed) => out.ret = True

\* hasSession returned true although clearSession was called after the save:
\* that clearSession had returned false.
HasSessionWitness ==
  /\ op = "hasSession" /\ ~foreign /\ ~failed
  /\ lastSaved.some /\ cleared[1]
  /\ out.ret = True

(***************************************************************************)
(* C3.  A clearSession() whose storage access does not throw returns true, *)
(* logs nothing and leaves the slot empty, whether it was occupied or      *)
(* not; a loadSession() after a clearSession() that returned true returns  *)
(* null.                                                                   *)
(***************************************************************************)
ClearEffective ==
  /\ (op = "clearSession" /\ ~failed) =>
       out.ret = True /\ ~out.threw /\ out.logs = 0 /\ ~Slot.present
  /\ (op = "loadSession" /\ cleared[2] /\ ~foreign) =>
       out.ret = Null /\ ~out.threw

\* A load after a successful clear returned null without a log entry.
ClearWitness ==
  /\ op = "loadSession" /\ cleared[2] /\ ~foreign /\ ~failed
  /\ out.ret = Null /\ out.logs = 0

(***************************************************************************)
(* C4, as stated.  For every record that saveSession stored,               *)
(* getSessionSummary() returns exactly currentWordIndex, totalWords,       *)
(* savedAt and hasText, the first three as stored, and hasText is true iff *)
(* the stored text is a non-empty string.                                  *)
(***************************************************************************)
SummaryShape(r) ==
  /\ r.tag = "object"
  /\ Len(r.o) = 4
  /\ {r.o[i][1] : i \in 1..Len(r.o)}
       = {"currentWordIndex", "totalWords", "savedAt", "hasText"}
  /\ \A f \in {"currentWordIndex", "totalWords", "savedAt"} :
       GetProp(r, f) = GetProp(Stored, f)

SummaryAsStated ==
  (op = "getSessionSummary" /\ ~failed /\ lastSaved.some) =>
    /\ SummaryShape(out.ret)
    /\ GetProp(out.ret, "hasText")
         = Bool(GetProp(Stored, "text").tag = "string"
                  /\ GetProp(Stored, "text").s # "")

(***************************************************************************)
(* C4, amended.  For every stored record, getSessionSummary() returns      *)
(* exactly currentWordIndex, totalWords, savedAt and hasText, the first    *)
(* three as stored, and hasText is true iff the stored text is truthy: a   *)
(* non-empty string, a number other than 0, true, or an object.            *)
(***************************************************************************)
TruthyText(v) ==
  \/ v.tag = "string" /\ v.s # ""
  \/ v.tag = "number" /\ v.n # 0
  \/ v.tag \in {"true", "object"}

SummaryOfRecord ==
  (op = "getSessionSummary" /\ ~failed /\ SlotHoldsRecord) =>
    /\ ~out.threw
    /\ SummaryShape(out.ret)
    /\ GetProp(out.ret, "hasText") = Bool(TruthyText(GetProp(Stored, "text")))

\* The summary of a saved record whose text is the number 7 has hasText true.
SummaryWitness ==
  /\ op = "getSessionSummary" /\ ~failed /\ lastSaved.some
  /\ lastSaved.session = SessionUntyped
  /\ GetProp(Stored, "text") = Num(7)
  /\ GetProp(out.ret, "hasText") = True

(***************************************************************************)
(* C5.  A saveSession(S) whose storage write throws, or whose S cannot be  *)
(* serialized, returns false, logs exactly once, does not throw, and       *)
(* leaves the storage as it was.                                           *)
(***************************************************************************)
Unserializable(s) == \E f \in RecordFields : HasCycle(GetProp(s, f))

SaveFailureContained ==
  (op = "saveSession" /\ (failed \/ Unserializable(arg))) =>
    /\ out.ret = False
    /\ out.logs = 1
    /\ ~out.threw
    /\ ~changed
    /\ lastSaved.some => (Slot.present /\ IsRecordOf(Stored, lastSaved))

\* A save of a serializable session failed on the write, over a record saved
\* before, which is still there.
SaveFailureWitness ==
  /\ op = "saveSession" /\ failed /\ ~Unserializable(arg) /\ ~IsNullish(arg)
  /\ out.ret = False
  /\ lastSaved.some /\ Slot.present
  /\ lastSaved.session # arg

(***************************************************************************)
(* C6, as stated.  loadSession() returns null and does not throw when the  *)
(* slot is empty, when the stored value is not parseable and when the      *)
(* storage read throws; it logs in the last two cases and not in the       *)
(* first; it never changes the storage.                                    *)
(***************************************************************************)
LoadAbsentAsStated ==
  op = "loadSession" =>
    /\ ~out.threw
    /\ ~changed
    /\ (~failed /\ ~Slot.present) => (out.ret = Null /\ out.logs = 0)
    /\ (~failed /\ Slot.present /\ ~JSONparses(Slot.v)) =>
         (out.ret = Null /\ out.logs >= 1)
    /\ failed => (out.ret = Null /\ out.logs >= 1)

(***************************************************************************)
(* C6, amended.  As stated, except that a stored empty string counts as an *)
(* empty slot: loadSession() returns null without a log entry; it logs for *)
(* a stored value that is not empty and not parseable.                     *)
(***************************************************************************)
LoadAbsent ==
  op = "loadSession" =>
    /\ ~out.threw
    /\ ~changed
    /\ (~failed /\ (~Slot.present \/ Slot.v = <<>>)) =>
         (out.ret = Null /\ out.logs = 0)
    /\ (~failed /\ SlotCorrupt) => (out.ret = Null /\ out.logs = 1)
    /\ failed => (out.ret = Null /\ out.logs = 1)

\* A load of a stored empty string returned null and logged nothing.
LoadAbsentWitness ==
  /\ op = "loadSession" /\ ~failed
  /\ Slot = Item(<<>>)
  /\ out.ret = Null /\ out.logs = 0

PercentageToWordIndexAsStated ==
  (conv.fn = "percentageToWordIndex" /\ conv.done) =>
    IF NoWords(conv.total) THEN conv.result = 0
    ELSE /\ conv.result
              = (Min(100, Max(0, conv.x)) * conv.total.n) \div 100
         /\ conv.result \in 0..conv.total.n
         /\ conv.x <= 0 => conv.result = 0
         /\ conv.x >= 100 => conv.result = conv.total.n

(***************************************************************************)
(* C9, as stated.  wordIndexToPercentage(wordIndex, totalWords) is 0 when  *)
(* totalWords is absent, zero or negative, and otherwise the nearest       *)
(* integer to wordIndex * 100 / totalWords, unclamped: above 100 for a     *)
(* wordIndex above totalWords and negative for a negative wordIndex.       *)
(***************************************************************************)
Nearest(r, w, n) == 2 * Abs(r * n - 100 * w) <= n

LastWriterAsStated ==
  /\ \A k \in Keys \ {STORAGE_KEY} : ~storage[k].present
  /\ (op = "loadSession" /\ ~foreign /\ ~failed) =>
       IF lastSaved.some /\ ~cleared[1]
         THEN IsRecordOf(out.ret, lastSaved)
         ELSE out.ret = Null

(***************************************************************************)
(* C10, amended.  ... returns the record of the latest saveSession that    *)
(* returned true if no clearSession returned true after it and the         *)
(* storage read of the load does not throw, and null otherwise.            *)
(***************************************************************************)
LastWriterWins ==
  /\ \A k \in Keys \ {STORAGE_KEY} : ~storage[k].present
  /\ (op = "loadSession" /\ ~foreign) =>
       IF lastSaved.some /\ ~failed
         THEN IsRecordOf(out.ret, lastSaved)
         ELSE out.ret = Null

\* A caller loaded the record another caller saved, after a clearSession
\* that had returned false.
LastWriterWitness ==
  /\ op = "loadSession" /\ ~foreign /\ ~failed
  /\ lastSaved.some /\ cleared[1]
  /\ caller # lastSaved.by
  /\ IsRecordOf(out.ret, lastSaved)
=============================================================================
